---- MODULE Spec2Model ----
(***************************************************************************)
(* The partition retrieval-request orchestrator of the Glacier refreezer   *)
(* (requestArchives handler) as a state machine.  One handler invocation   *)
(* advances from await to await; the status table, the Glacier job         *)
(* backend and the Athena query are shared state.                          *)
(*                                                                         *)
(* Sizes are counted in MiB: TLC integers are 32 bit wide and the source's *)
(* CHUNK_SIZE of 4 * 1024 * 1024 * 1024 bytes does not fit, so the model   *)
(* drops the factor 1024 * 1024 from every size and from CHUNK_SIZE.       *)
(***************************************************************************)
EXTENDS Integers, Sequences, FiniteSets, TLC

VARIABLES
    inventory,      \* partition -> result rows of the Athena query, as CSV text
    store,          \* STATUS_TABLE: archive id -> item or NoItem
    jobs,           \* number of Glacier jobs initiated so far
    submitted,      \* archive id -> number of initiateJob calls for it
    lost,           \* archive id -> submissions whose putItem never happened
    now,            \* clock: number of invocations started
    pc,             \* handler -> the await it is suspended at
    payload,        \* handler -> the payload object (mutated at line 130)
    input,          \* handler -> the payload as the caller passed it
    pid,            \* handler -> const pid
    cursor,         \* handler -> value returned by the cursor lookup
    partitionMaxProcessedFileNumber,
    qstate,         \* handler -> state of its Athena query execution
    polls,          \* handler -> getQueryExecution calls that found it unfinished
    lines,          \* handler -> parsed rows
    idx,            \* handler -> position of the for loop in lines
    fname,          \* handler -> let fname
    jobId,          \* handler -> const jobId
    processed,      \* handler -> const processed = []
    calls,          \* handler -> side effects of the current invocation
    err,            \* handler -> the await that threw
    lag,            \* handler -> the cursor lookup read a lagging max-file-index
    returned,       \* partitions some invocation has returned successfully for
    jobOf,          \* Glacier: job id -> the archive the retrieval job is for
    athena,         \* Athena: query execution id -> the partition it selects
    QueryExecutionId, \* handler -> id of the query execution it started
    resumeAt,       \* partition -> row number whose submission failed last, or 0
    progressCount,  \* metrics table: the item 'count', or Undefined
    progressVolume, \* metrics table: the item 'volume', or Undefined
    metricList,     \* what the metrics publisher passed to publishMetric
    sizeInBytes,    \* argument of a stand-alone calculateNumberOfChunks call
    numberOfChunks  \* and its result

vars == <<inventory, store, jobs, submitted, lost, now, pc, payload, input, pid,
          cursor, partitionMaxProcessedFileNumber, qstate, polls, lines, idx,
          fname, jobId, processed, calls, err, lag, returned, sizeInBytes,
          numberOfChunks, jobOf, athena, QueryExecutionId, resumeAt,
          progressCount, progressVolume, metricList>>

mvars == <<progressCount, progressVolume, metricList>>

hvars == <<pc, payload, input, pid, cursor, partitionMaxProcessedFileNumber,
           qstate, polls, lines, idx, fname, jobId, processed, calls, err, lag,
           QueryExecutionId>>

tvars == <<store, jobs, submitted, lost, now, returned, jobOf, athena, resumeAt>>

-----------------------------------------------------------------------------
(* Bounds *)

MaxInvocations == 3
MaxPolls == 1
MaxChunks == 3
MaxFailures == 2
MaxMetric == 2

-----------------------------------------------------------------------------
(* Constants of the program *)

CHUNK_SIZE == 4 * 1024

NaN == 0 - 1

NoItem == [aid |-> "none"]

None == 0 - 2

Handlers == {1, 2}

Partitions == {1, 2}

maxPartition == 2

QueryStates == {"QUEUED", "RUNNING", "SUCCEEDED", "FAILED", "CANCELLED"}

-----------------------------------------------------------------------------
(* CSV text of numbers and parseInt *)

DigitChars == <<"0", "1", "2", "3", "4", "5", "6", "7", "8", "9">>

IsDigit(c) == \E d \in 1..10 : DigitChars[d] = c

DigitVal(c) == (CHOOSE d \in 1..10 : DigitChars[d] = c) - 1

RECURSIVE ToCSV(_)
ToCSV(n) == IF n < 10 THEN <<DigitChars[n + 1]>>
            ELSE Append(ToCSV(n \div 10), DigitChars[(n % 10) + 1])

RECURSIVE ParseDigits(_, _, _)
ParseDigits(s, k, acc) ==
    IF k > Len(s) \/ ~IsDigit(s[k]) THEN acc
    ELSE ParseDigits(s, k + 1, acc * 10 + DigitVal(s[k]))

parseInt(s) == IF Len(s) = 0 \/ ~IsDigit(s[1]) THEN NaN ELSE ParseDigits(s, 1, 0)

-----------------------------------------------------------------------------
(* Inventory *)

Descriptions == {"photo", "photo-t1"}

Dates == {"t1", "t2"}

CsvRow(n, a, sz, d, c) ==
    [row_num |-> ToCSV(n), archiveid |-> a, size |-> ToCSV(sz),
     sha256treehash |-> "h", archivedescription |-> d, creationdate |-> c]

Inventories ==
    { [p \in Partitions |->
         IF p = 1 THEN <<CsvRow(1, "a1", 0, "photo", "t1"),
                         CsvRow(2, "a2", CHUNK_SIZE, d2, c2)>>
         ELSE IF n3 = 0 THEN <<>>
         ELSE <<CsvRow(1, "a3", CHUNK_SIZE + 1, "photo", c3)>>]
      : d2 \in Descriptions, c2 \in Dates, c3 \in Dates, n3 \in {0, 1} }

Archives == {"a1", "a2", "a3"}

\* Text of a numeric column that is no number: a letter, or nothing at all.
Unparseable == {<<"x">>, <<>>}

\* Partition 1 with a row between two sound ones whose row_num or size is no number.
MalformedInventories ==
    { [p \in Partitions |->
         IF p = 1 THEN <<CsvRow(1, "a1", 0, "photo", "t1"),
                         [CsvRow(2, "a2", CHUNK_SIZE, "photo", "t2") EXCEPT ![f] = u],
                         CsvRow(3, "a3", CHUNK_SIZE + 1, "photo", "t1")>>
         ELSE <<>>]
      : f \in {"row_num", "size"}, u \in Unparseable }

-----------------------------------------------------------------------------
(* Pure functions of the handler *)

parseFileName(aid, descr) == IF descr = "" THEN aid ELSE descr

\* Variant: one chunk more than the whole chunks, whatever the remainder.
calculateNumberOfChunksExtra(s) == (s \div CHUNK_SIZE) + 1

\* Math.floor(NaN / CHUNK_SIZE) is NaN, NaN % CHUNK_SIZE !== 0 holds, NaN++ is NaN.
calculateNumberOfChunks(s) ==
    IF s = NaN THEN NaN
    ELSE LET floor == s \div CHUNK_SIZE
         IN  IF s % CHUNK_SIZE # 0 THEN floor + 1 ELSE floor

\* Variant: the row after the cursor counts as processed as well.
AlreadyProcessedNext(ifn, max) == ifn # NaN /\ ifn <= max + 1

\* Variant: the comparison of line 75 as ifn < partitionMaxProcessedFileNumber.
AlreadyProcessedStrict(ifn, max) == ifn # NaN /\ ifn < max

AlreadyProcessed(ifn, max) == ifn # NaN /\ ifn <= max

Includes(seq, x) == \E k \in 1..Len(seq) : seq[k] = x

WithCreationDate(name, creationdate) == name \o "-" \o creationdate

\* Variant: only FAILED throws.
AthenaExceptionFailedOnly(state) == state = "FAILED"

AthenaException(state) == state \notin {"QUEUED", "RUNNING", "SUCCEEDED"}

\* Variant: the loop ends as soon as the query has left the queue.
runCompleteNotQueued(state) == state # "QUEUED"

\* runComplete = state === "SUCCEEDED"
runComplete(state) == state = "SUCCEEDED"

Items(st) == { st[a] : a \in { b \in Archives : st[b] # NoItem } }

SetMax(S) == CHOOSE m \in S : \A n \in S : n <= m

SetMin(S) == CHOOSE m \in S : \A n \in S : m <= n

\* Variant: the index scanned forward (ScanIndexForward: true), lowest row first.
getPartitionMinProcessedFileNumber(st, p) ==
    LET found == { it \in Items(st) : it.pid = p }
    IN  IF Cardinality(found) = 0 THEN 0
        ELSE SetMin({ it.ifn : it \in found })

\* The answer of the query on max-file-index: KeyConditionExpression pid = :pid,
\* ScanIndexForward false, Limit 1.  The one item evaluated is the one with the
\* highest ifn; its index and table keys come back as LastEvaluatedKey, the
\* number in DynamoDB's text form.
MaxFileIndexQuery(st, p) ==
    LET found == { it \in Items(st) : it.pid = p }
    IN  IF found = {} THEN [Count |-> 0]
        ELSE LET top == CHOOSE it \in found : \A o \in found : o.ifn <= it.ifn
             IN  [Count |-> 1,
                  LastEvaluatedKey |-> [pid |-> p, ifn |-> ToCSV(top.ifn), aid |-> top.aid]]

\* Variant: the key condition dropped, the highest row number of the whole table.
getMaxProcessedFileNumber(st, p) ==
    IF Items(st) = {} THEN 0 ELSE SetMax({ it.ifn : it \in Items(st) })

getPartitionMaxProcessedFileNumber(st, p) ==
    LET result == MaxFileIndexQuery(st, p)
    IN  IF result.Count = 0 THEN 0
        ELSE parseInt(result.LastEvaluatedKey.ifn)

\* Variant: a name counts as taken only from the second item on.
filenameExistsTwice(st, name) ==
    Cardinality({ it \in Items(st) : it.fname = name }) > 1

filenameExists(st, name) ==
    Cardinality({ it \in Items(st) : it.fname = name }) # 0

ParseLine(data) ==
    [data EXCEPT !.size = parseInt(data.size), !.row_num = parseInt(data.row_num)]

readResultsCSV(rows) == [k \in 1..Len(rows) |-> ParseLine(rows[k])]

\* Variant: cc and rc take each other's value.
ItemCountsSwapped(line, p, job, name, t) ==
    [aid |-> line.archiveid, jobId |-> job, ifn |-> line.row_num, pid |-> p,
     sha |-> line.sha256treehash, sz |-> line.size, cdt |-> t,
     descr |-> line.archivedescription, fname |-> name,
     cc |-> 0, rc |-> calculateNumberOfChunks(line.size)]

Item(line, p, job, name, t) ==
    [aid |-> line.archiveid, jobId |-> job, ifn |-> line.row_num, pid |-> p,
     sha |-> line.sha256treehash, sz |-> line.size, cdt |-> t,
     descr |-> line.archivedescription, fname |-> name,
     cc |-> calculateNumberOfChunks(line.size), rc |-> 0]

\* Variant: only the key attribute is looked at.
ValidatesKey(item) == item.aid # ""

\* DynamoDB takes a number attribute only if its text is a number: "NaN" is not.
Validates(item) == item.ifn # NaN /\ item.sz # NaN /\ item.cc # NaN

NoCalls == [lookup |-> 0, submit |-> 0, put |-> 0, query |-> 0]

-----------------------------------------------------------------------------
(* Initial state: an inventory, an empty status table, no invocation yet *)

Idle ==
    /\ pc = [i \in Handlers |-> "idle"]
    /\ payload = [i \in Handlers |-> [nextPartition |-> 0, maxPartition |-> 0]]
    /\ input = [i \in Handlers |-> [nextPartition |-> 0, maxPartition |-> 0]]
    /\ pid = [i \in Handlers |-> 0]
    /\ cursor = [i \in Handlers |-> None]
    /\ partitionMaxProcessedFileNumber = [i \in Handlers |-> None]
    /\ qstate = [i \in Handlers |-> "none"]
    /\ polls = [i \in Handlers |-> 0]
    /\ lines = [i \in Handlers |-> <<>>]
    /\ idx = [i \in Handlers |-> 0]
    /\ fname = [i \in Handlers |-> ""]
    /\ jobId = [i \in Handlers |-> 0]
    /\ processed = [i \in Handlers |-> <<>>]
    /\ calls = [i \in Handlers |-> NoCalls]
    /\ err = [i \in Handlers |-> "none"]
    /\ lag = [i \in Handlers |-> FALSE]
    /\ QueryExecutionId = [i \in Handlers |-> 0]

\* dynamo.getItem finds no item under the key.
Undefined == [missing |-> TRUE]

NoMetrics ==
    /\ progressCount = Undefined
    /\ progressVolume = Undefined
    /\ metricList = <<>>

EmptyTable ==
    /\ store = [a \in Archives |-> NoItem]
    /\ jobs = 0
    /\ submitted = [a \in Archives |-> 0]
    /\ lost = [a \in Archives |-> 0]
    /\ now = 0
    /\ returned = {}
    /\ jobOf = <<>>
    /\ athena = <<>>
    /\ resumeAt = [p \in Partitions |-> 0]

Init ==
    /\ inventory \in Inventories
    /\ EmptyTable
    /\ Idle
    /\ sizeInBytes = 0
    /\ numberOfChunks = None
    /\ NoMetrics

-----------------------------------------------------------------------------
(* The handler, one action per await *)

Line(i) == lines[i][idx[i]]

Running(i) == pc[i] \notin {"idle", "done", "failed"}

\* The handler is entered with payload {nextPartition: p, maxPartition}.
Start(i, p) ==
    /\ now' = now + 1
    /\ pc' = [pc EXCEPT ![i] = "resume"]
    /\ payload' = [payload EXCEPT ![i] = [nextPartition |-> p, maxPartition |-> maxPartition]]
    /\ input' = [input EXCEPT ![i] = [nextPartition |-> p, maxPartition |-> maxPartition]]
    /\ pid' = [pid EXCEPT ![i] = p]
    /\ processed' = [processed EXCEPT ![i] = <<>>]
    /\ cursor' = [cursor EXCEPT ![i] = None]
    /\ partitionMaxProcessedFileNumber' = [partitionMaxProcessedFileNumber EXCEPT ![i] = None]
    /\ qstate' = [qstate EXCEPT ![i] = "none"]
    /\ polls' = [polls EXCEPT ![i] = 0]
    /\ lines' = [lines EXCEPT ![i] = <<>>]
    /\ idx' = [idx EXCEPT ![i] = 0]
    /\ fname' = [fname EXCEPT ![i] = ""]
    /\ jobId' = [jobId EXCEPT ![i] = 0]
    /\ calls' = [calls EXCEPT ![i] = NoCalls]
    /\ err' = [err EXCEPT ![i] = "none"]
    /\ lag' = [lag EXCEPT ![i] = FALSE]
    /\ QueryExecutionId' = [QueryExecutionId EXCEPT ![i] = 0]
    /\ UNCHANGED <<inventory, store, jobs, submitted, lost, returned, sizeInBytes,
                   numberOfChunks,
                   jobOf, athena, resumeAt, mvars>>

\* The caller (the orchestrating state machine) invokes the handler with a payload.
Invoke(i, p) ==
    /\ ~Running(i)
    /\ now < MaxInvocations
    /\ Start(i, p)

\* await getPartitionMaxProcessedFileNumber(pid), the index being in sync
Resume(i) ==
    /\ pc[i] = "resume"
    /\ LET m == getPartitionMaxProcessedFileNumber(store, pid[i])
       IN  /\ cursor' = [cursor EXCEPT ![i] = m]
           /\ partitionMaxProcessedFileNumber' =
                  [partitionMaxProcessedFileNumber EXCEPT ![i] = m]
    /\ pc' = [pc EXCEPT ![i] = "startQuery"]
    /\ UNCHANGED <<inventory, store, jobs, submitted, lost, now, payload, input, pid,
                   qstate, polls, lines, idx, fname, jobId, processed, calls, err,
                   sizeInBytes, numberOfChunks, lag, returned,
                   jobOf, athena, QueryExecutionId, resumeAt, mvars>>

\* What the max-file-index holds when only the items of S have reached it.
IndexView(st, S) == [a \in Archives |-> IF a \in S THEN st[a] ELSE NoItem]

\* await getPartitionMaxProcessedFileNumber(pid), answered by a lagging index
ResumeStale(i) ==
    /\ pc[i] = "resume"
    /\ \E S \in SUBSET Archives :
         LET m == getPartitionMaxProcessedFileNumber(IndexView(store, S), pid[i])
         IN  /\ m # getPartitionMaxProcessedFileNumber(store, pid[i])
             /\ cursor' = [cursor EXCEPT ![i] = m]
             /\ partitionMaxProcessedFileNumber' =
                    [partitionMaxProcessedFileNumber EXCEPT ![i] = m]
    /\ lag' = [lag EXCEPT ![i] = TRUE]
    /\ pc' = [pc EXCEPT ![i] = "startQuery"]
    /\ UNCHANGED <<inventory, store, jobs, submitted, lost, now, payload, input, pid,
                   qstate, polls, lines, idx, fname, jobId, processed, calls, err,
                   returned, sizeInBytes, numberOfChunks,
                   jobOf, athena, QueryExecutionId, resumeAt, mvars>>

\* await athena.startQueryExecution
StartQuery(i) ==
    /\ pc[i] = "startQuery"
    /\ qstate' = [qstate EXCEPT ![i] = "QUEUED"]
    /\ calls' = [calls EXCEPT ![i].query = @ + 1]
    /\ athena' = Append(athena, pid[i])
    /\ QueryExecutionId' = [QueryExecutionId EXCEPT ![i] = Len(athena) + 1]
    /\ pc' = [pc EXCEPT ![i] = "poll"]
    /\ UNCHANGED <<inventory, store, jobs, submitted, lost, now, payload, input, pid,
                   cursor, partitionMaxProcessedFileNumber, polls, lines, idx, fname,
                   jobId, processed, err, sizeInBytes, numberOfChunks, lag, returned,
                   jobOf, resumeAt, mvars>>

\* The states a query execution in state s can be found in at the next poll.
QueryNext(s) ==
    IF s = "QUEUED" THEN QueryStates
    ELSE IF s = "RUNNING" THEN QueryStates \ {"QUEUED"}
    ELSE {s}

\* One turn of the while loop: sleep, await athena.getQueryExecution, test the state.
Poll(i, s) ==
    /\ pc[i] = "poll"
    /\ s \in QueryNext(qstate[i])
    /\ qstate' = [qstate EXCEPT ![i] = s]
    /\ IF AthenaException(s)
       THEN /\ pc' = [pc EXCEPT ![i] = "failed"]
            /\ err' = [err EXCEPT ![i] = "athena"]
            /\ UNCHANGED polls
       ELSE IF runComplete(s)
       THEN /\ pc' = [pc EXCEPT ![i] = "readCSV"]
            /\ UNCHANGED <<err, polls>>
       ELSE /\ polls[i] < MaxPolls
            /\ polls' = [polls EXCEPT ![i] = @ + 1]
            /\ UNCHANGED <<pc, err>>
    /\ UNCHANGED <<inventory, store, jobs, submitted, lost, now, payload, input, pid,
                   cursor, partitionMaxProcessedFileNumber, lines, idx, fname, jobId,
                   processed, calls, sizeInBytes, numberOfChunks, lag, returned,
                   jobOf, athena, QueryExecutionId, resumeAt, mvars>>

\* The key of the result file: `results/${QueryExecutionId}.csv`.
resultsCSV(id) == <<"results", id>>

\* The object Athena stored under the key: the rows of the partition it selected.
ResultsObject(key) == inventory[athena[key[2]]]

\* await readResultsCSV(resultsCSV)
ReadCSV(i) ==
    /\ pc[i] = "readCSV"
    /\ lines' = [lines EXCEPT ![i] = readResultsCSV(ResultsObject(resultsCSV(QueryExecutionId[i])))]
    /\ idx' = [idx EXCEPT ![i] = 1]
    /\ pc' = [pc EXCEPT ![i] = "loop"]
    /\ UNCHANGED <<inventory, store, jobs, submitted, lost, now, payload, input, pid,
                   cursor, partitionMaxProcessedFileNumber, qstate, polls, fname, jobId,
                   processed, calls, err, sizeInBytes, numberOfChunks, lag, returned,
                   jobOf, athena, QueryExecutionId, resumeAt, mvars>>

\* if (ifn <= partitionMaxProcessedFileNumber) continue
RowSkip(i) ==
    /\ pc[i] = "loop"
    /\ idx[i] <= Len(lines[i])
    /\ AlreadyProcessed(Line(i).row_num, partitionMaxProcessedFileNumber[i])
    /\ idx' = [idx EXCEPT ![i] = @ + 1]
    /\ UNCHANGED <<inventory, store, jobs, submitted, lost, now, pc, payload, input, pid,
                   cursor, partitionMaxProcessedFileNumber, qstate, polls, lines, fname,
                   jobId, processed, calls, err, sizeInBytes, numberOfChunks, lag, returned,
                   jobOf, athena, QueryExecutionId, resumeAt, mvars>>

\* parseFileName, then processed.includes(fname) || (await filenameExists(fname))
RowName(i) ==
    /\ pc[i] = "loop"
    /\ idx[i] <= Len(lines[i])
    /\ ~AlreadyProcessed(Line(i).row_num, partitionMaxProcessedFileNumber[i])
    /\ LET base == parseFileName(Line(i).archiveid, Line(i).archivedescription)
       IN  IF Includes(processed[i], base)
           THEN /\ fname' = [fname EXCEPT ![i] = WithCreationDate(base, Line(i).creationdate)]
                /\ pc' = [pc EXCEPT ![i] = "initiate"]
                /\ UNCHANGED calls
           ELSE /\ fname' = [fname EXCEPT ![i] = base]
                /\ pc' = [pc EXCEPT ![i] = "exists"]
                /\ calls' = [calls EXCEPT ![i].lookup = @ + 1]
    /\ UNCHANGED <<inventory, store, jobs, submitted, lost, now, payload, input, pid,
                   cursor, partitionMaxProcessedFileNumber, qstate, polls, lines, idx,
                   jobId, processed, err, sizeInBytes, numberOfChunks, lag, returned,
                   jobOf, athena, QueryExecutionId, resumeAt, mvars>>

\* the answer of filenameExists(fname), the name index being in sync
Exists(i) ==
    /\ pc[i] = "exists"
    /\ fname' = [fname EXCEPT ![i] =
                    IF filenameExists(store, fname[i])
                    THEN WithCreationDate(fname[i], Line(i).creationdate)
                    ELSE fname[i]]
    /\ pc' = [pc EXCEPT ![i] = "initiate"]
    /\ UNCHANGED <<inventory, store, jobs, submitted, lost, now, payload, input, pid,
                   cursor, partitionMaxProcessedFileNumber, qstate, polls, lines, idx,
                   jobId, processed, calls, err, sizeInBytes, numberOfChunks, lag, returned,
                   jobOf, athena, QueryExecutionId, resumeAt, mvars>>

\* Variant: the job is initiated and its jobId not kept.
InitiateNoHandle(i) ==
    /\ pc[i] = "initiate"
    /\ jobs' = jobs + 1
    /\ jobOf' = Append(jobOf, Line(i).archiveid)
    /\ resumeAt' = [resumeAt EXCEPT ![pid[i]] = 0]
    /\ submitted' = [submitted EXCEPT ![Line(i).archiveid] = @ + 1]
    /\ calls' = [calls EXCEPT ![i].submit = @ + 1]
    /\ pc' = [pc EXCEPT ![i] = "put"]
    /\ UNCHANGED <<inventory, store, lost, now, payload, input, pid, cursor,
                   partitionMaxProcessedFileNumber, qstate, polls, lines, idx, fname,
                   jobId, processed, err, sizeInBytes, numberOfChunks, lag, returned,
                   athena, QueryExecutionId, mvars>>

\* await glacier.initiateJob
Initiate(i) ==
    /\ pc[i] = "initiate"
    /\ jobs' = jobs + 1
    /\ jobId' = [jobId EXCEPT ![i] = jobs + 1]
    /\ jobOf' = Append(jobOf, Line(i).archiveid)
    /\ resumeAt' = [resumeAt EXCEPT ![pid[i]] = 0]
    /\ submitted' = [submitted EXCEPT ![Line(i).archiveid] = @ + 1]
    /\ calls' = [calls EXCEPT ![i].submit = @ + 1]
    /\ pc' = [pc EXCEPT ![i] = "put"]
    /\ UNCHANGED <<inventory, store, lost, now, payload, input, pid, cursor,
                   partitionMaxProcessedFileNumber, qstate, polls, lines, idx, fname,
                   processed, err, sizeInBytes, numberOfChunks, lag, returned,
                   athena, QueryExecutionId, mvars>>

\* await dynamodb.putItem, processed.push(fname), partitionMaxProcessedFileNumber = ifn
PutItem(i) ==
    /\ pc[i] = "put"
    /\ Validates(Item(Line(i), pid[i], jobId[i], fname[i], now))
    /\ store' = [store EXCEPT ![Line(i).archiveid] =
                    Item(Line(i), pid[i], jobId[i], fname[i], now)]
    /\ processed' = [processed EXCEPT ![i] = Append(@, fname[i])]
    /\ partitionMaxProcessedFileNumber' =
           [partitionMaxProcessedFileNumber EXCEPT ![i] = Line(i).row_num]
    /\ calls' = [calls EXCEPT ![i].put = @ + 1]
    /\ idx' = [idx EXCEPT ![i] = @ + 1]
    /\ pc' = [pc EXCEPT ![i] = "loop"]
    /\ UNCHANGED <<inventory, jobs, submitted, lost, now, payload, input, pid, cursor,
                   qstate, polls, lines, fname, jobId, err, sizeInBytes, numberOfChunks, lag, returned,
                   jobOf, athena, QueryExecutionId, resumeAt, mvars>>

\* await dynamodb.putItem throws a ValidationException: the job of line 88 is
\* submitted and has no record.
PutItemRejected(i) ==
    /\ pc[i] = "put"
    /\ ~Validates(Item(Line(i), pid[i], jobId[i], fname[i], now))
    /\ err' = [err EXCEPT ![i] = "put"]
    /\ pc' = [pc EXCEPT ![i] = "failed"]
    /\ lost' = [lost EXCEPT ![Line(i).archiveid] = @ + 1]
    /\ UNCHANGED <<inventory, store, jobs, submitted, now, payload, input, pid, cursor,
                   partitionMaxProcessedFileNumber, qstate, polls, lines, idx, fname,
                   jobId, processed, calls, sizeInBytes, numberOfChunks, lag, returned,
                   jobOf, athena, QueryExecutionId, resumeAt, mvars>>

\* Variant: the increment lands in maxPartition.
NextPayloadMax(pl, p) == [pl EXCEPT !.maxPartition = p + 1]

NextPayload(pl, p) == [pl EXCEPT !.nextPartition = p + 1]

\* payload.nextPartition = pid + 1; return payload
Return(i) ==
    /\ pc[i] = "loop"
    /\ idx[i] > Len(lines[i])
    /\ payload' = [payload EXCEPT ![i] = NextPayload(@, pid[i])]
    /\ pc' = [pc EXCEPT ![i] = "done"]
    /\ returned' = returned \cup {pid[i]}
    /\ UNCHANGED <<inventory, store, jobs, submitted, lost, now, input, pid, cursor,
                   partitionMaxProcessedFileNumber, qstate, polls, lines, idx, fname,
                   jobId, processed, calls, err, lag, sizeInBytes, numberOfChunks,
                   jobOf, athena, QueryExecutionId, resumeAt, mvars>>

Awaits == {"resume", "startQuery", "poll", "readCSV", "exists", "initiate", "put"}

\* The awaited call rejects, or the invocation is killed while it waits.
Fail(i) ==
    /\ pc[i] \in Awaits
    /\ err' = [err EXCEPT ![i] = pc[i]]
    /\ pc' = [pc EXCEPT ![i] = "failed"]
    /\ lost' = IF pc[i] = "put" THEN [lost EXCEPT ![Line(i).archiveid] = @ + 1] ELSE lost
    /\ resumeAt' = IF pc[i] = "initiate"
                   THEN [resumeAt EXCEPT ![pid[i]] = Line(i).row_num]
                   ELSE resumeAt
    /\ UNCHANGED <<inventory, store, jobs, submitted, now, payload, input, pid, cursor,
                   partitionMaxProcessedFileNumber, qstate, polls, lines, idx, fname,
                   jobId, processed, calls, sizeInBytes, numberOfChunks, lag, returned,
                   jobOf, athena, QueryExecutionId, mvars>>

\* The S3 read stream or the CSV parser emits 'error'.  The promise of line 172
\* has no reject and the streams have no 'error' listener: either the promise is
\* never settled and the handler stays at the await (this action), or the
\* unhandled event ends the process (Fail at "readCSV").
StreamError(i) ==
    /\ pc[i] = "readCSV"
    /\ err' = [err EXCEPT ![i] = "stream"]
    /\ pc' = [pc EXCEPT ![i] = "hung"]
    /\ UNCHANGED <<inventory, store, jobs, submitted, lost, now, payload, input, pid,
                   cursor, partitionMaxProcessedFileNumber, qstate, polls, lines, idx,
                   fname, jobId, processed, calls, sizeInBytes, numberOfChunks, lag,
                   returned, jobOf, athena, QueryExecutionId, resumeAt, mvars>>

\* The invocation's outer timeout, owned by the caller, ends a handler that hangs.
Timeout(i) ==
    /\ pc[i] = "hung"
    /\ err' = [err EXCEPT ![i] = "timeout"]
    /\ pc' = [pc EXCEPT ![i] = "failed"]
    /\ UNCHANGED <<inventory, store, jobs, submitted, lost, now, payload, input, pid,
                   cursor, partitionMaxProcessedFileNumber, qstate, polls, lines, idx,
                   fname, jobId, processed, calls, sizeInBytes, numberOfChunks, lag,
                   returned, jobOf, athena, QueryExecutionId, resumeAt, mvars>>

Step(i) ==
    \/ \E p \in Partitions : Invoke(i, p)
    \/ Resume(i)
    \/ StartQuery(i)
    \/ \E s \in QueryStates : Poll(i, s)
    \/ ReadCSV(i)
    \/ RowSkip(i)
    \/ RowName(i)
    \/ Exists(i)
    \/ Initiate(i)
    \/ PutItem(i)
    \/ Return(i)
    \/ Fail(i)
    \/ StreamError(i)
    \/ Timeout(i)

\* Invocations one at a time, the indexes of the status table in sync.
Next == Step(1)

Spec == Init /\ [][Next]_vars

\* Invocations one at a time; the cursor lookup may read a lagging index.
NextStale == Step(1) \/ ResumeStale(1)

SpecStale == Init /\ [][NextStale]_vars

\* Inventories for overlapping invocations: every creation date the same.
InitConcurrent ==
    /\ inventory \in { inv \in Inventories :
                          \A p \in Partitions : \A k \in 1..Len(inv[p]) :
                              inv[p][k].creationdate = "t1" }
    /\ EmptyTable
    /\ Idle
    /\ sizeInBytes = 0
    /\ numberOfChunks = None
    /\ NoMetrics

\* One of as many invocations as there are handlers; its cursor lookup may read
\* a lagging index.
Overlap(i) ==
    \/ \E p \in Partitions : now < Cardinality(Handlers) /\ Invoke(i, p)
    \/ Resume(i)
    \/ ResumeStale(i)
    \/ StartQuery(i)
    \/ \E s \in QueryStates : Poll(i, s)
    \/ ReadCSV(i)
    \/ RowSkip(i)
    \/ RowName(i)
    \/ Exists(i)
    \/ Initiate(i)
    \/ PutItem(i)
    \/ Return(i)
    \/ Fail(i)
    \/ StreamError(i)
    \/ Timeout(i)

\* Two invocations, of the same partition or of different ones, overlapping in
\* any way or one after the other.
NextConcurrent == \E i \in Handlers : Overlap(i)

SpecConcurrent == InitConcurrent /\ [][NextConcurrent]_vars

-----------------------------------------------------------------------------
(* One invocation chain per partition, the chains overlapping *)

\* Handler i is invoked for partition i only; one of the handlers is invoked
\* again after it failed or returned.  The indexes are in sync.
Disjoint(i) ==
    \/ i \in Partitions /\ now <= Cardinality(Handlers) /\ Invoke(i, i)
    \/ Resume(i)
    \/ StartQuery(i)
    \/ \E s \in QueryStates : Poll(i, s)
    \/ ReadCSV(i)
    \/ RowSkip(i)
    \/ RowName(i)
    \/ Exists(i)
    \/ Initiate(i)
    \/ PutItem(i)
    \/ Return(i)
    \/ Fail(i)
    \/ StreamError(i)
    \/ Timeout(i)

NextDisjoint == \E i \in Handlers : Disjoint(i)

SpecDisjoint == InitConcurrent /\ [][NextDisjoint]_vars

-----------------------------------------------------------------------------
(* A query result with a malformed row *)

InitAnomaly ==
    /\ inventory \in MalformedInventories
    /\ EmptyTable
    /\ Idle
    /\ sizeInBytes = 0
    /\ numberOfChunks = None
    /\ NoMetrics

NextAnomaly == Step(1) \/ PutItemRejected(1)

SpecAnomaly == InitAnomaly /\ [][NextAnomaly]_vars

-----------------------------------------------------------------------------
(* The caller's loop over the partitions, external failures running out *)

\* Invocations that have failed so far.
Failures == now - Cardinality(returned) - (IF Running(1) THEN 1 ELSE 0)

\* An external service may still fail.
MayFail == Failures < MaxFailures

\* The caller starts with partition 1, invokes again with the payload it passed
\* after a failure, and with the payload returned while partitions are left.
Caller(i) ==
    \/ pc[i] = "idle" /\ Start(i, 1)
    \/ pc[i] = "failed" /\ Start(i, input[i].nextPartition)
    \/ /\ pc[i] = "done"
       /\ payload[i].nextPartition <= payload[i].maxPartition
       /\ Start(i, payload[i].nextPartition)

NextLive ==
    \/ Caller(1)
    \/ Resume(1)
    \/ StartQuery(1)
    \/ \E s \in QueryStates : (AthenaException(s) => MayFail) /\ Poll(1, s)
    \/ ReadCSV(1)
    \/ RowSkip(1)
    \/ RowName(1)
    \/ Exists(1)
    \/ Initiate(1)
    \/ PutItem(1)
    \/ Return(1)
    \/ MayFail /\ Fail(1)
    \/ MayFail /\ StreamError(1)
    \/ Timeout(1)

\* The handler runs on, the services answer, the caller invokes again.
SpecLive == Init /\ [][NextLive]_vars /\ WF_vars(NextLive)

-----------------------------------------------------------------------------
(* The chunk planner on its own *)

InitChunks ==
    /\ inventory = [p \in Partitions |-> <<>>]
    /\ EmptyTable
    /\ Idle
    /\ sizeInBytes \in 0..(MaxChunks * CHUNK_SIZE + 1)
    /\ numberOfChunks = None
    /\ NoMetrics

PlanChunks ==
    /\ numberOfChunks = None
    /\ numberOfChunks' = calculateNumberOfChunks(sizeInBytes)
    /\ UNCHANGED <<inventory, tvars, hvars, sizeInBytes, mvars>>

NextChunks == PlanChunks

SpecChunks == InitChunks /\ [][NextChunks]_vars

-----------------------------------------------------------------------------
(* The metrics publisher (postMetrics handler) *)

\* A progress item lacks the attribute: no text of a number is empty.
Absent == <<>>

\* JavaScript null.
Null == 0 - 3

ProgressFields == {"requested", "staged", "validated", "copied"}

\* An attribute is absent or {N: text of a number}.  Totals run from 0 to one
\* above the highest progress value; a progress value is 1 or the highest.
ProgressItems ==
    {Undefined} \cup
    { [total |-> t, requested |-> r, staged |-> g, validated |-> v, copied |-> c]
      : t \in {Absent} \cup { ToCSV(n) : n \in 0..(MaxMetric + 1) },
        r \in {Absent, ToCSV(1), ToCSV(MaxMetric)},
        g \in {Absent, ToCSV(1), ToCSV(MaxMetric)},
        v \in {Absent, ToCSV(1), ToCSV(MaxMetric)},
        c \in {Absent, ToCSV(1), ToCSV(MaxMetric)} }

\* item && item.field ? parseInt(item.field.N) : otherwise
Attribute(item, field, otherwise) ==
    IF item = Undefined \/ item[field] = Absent THEN otherwise
    ELSE parseInt(item[field])

\* if (x): null, 0 and NaN are falsy.
Truthy(x) == x # Null /\ x # 0 /\ x # NaN

\* a > b, null taken as 0 and any comparison with NaN false.
GreaterThan(a, b) ==
    LET num(x) == IF x = Null THEN 0 ELSE x
    IN  a # NaN /\ b # NaN /\ num(a) > num(b)

\* value > total ? total : value
Clamp(value, total) == IF GreaterThan(value, total) THEN total ELSE value

Metric(name, value) == [metricName |-> name, metricValue |-> value]

\* The list the handler hands to metrics.publishMetric.
postMetrics(count, volume) ==
    LET totalCount == Attribute(count, "total", Null)
        totalBytes == Attribute(volume, "total", Null)
        counted(f) == LET n == Attribute(count, f, 0)
                      IN  IF Truthy(totalCount) THEN Clamp(n, totalCount) ELSE n
        bytes(f) == LET n == Attribute(volume, f, 0)
                    IN  IF Truthy(totalCount) THEN Clamp(n, totalBytes) ELSE n
    IN  << Metric("ArchiveCountTotal", totalCount),
           Metric("ArchiveCountRequested", counted("requested")),
           Metric("ArchiveCountStaged", counted("staged")),
           Metric("ArchiveCountValidated", counted("validated")),
           Metric("ArchiveCountCompleted", counted("copied")),
           Metric("BytesTotal", totalBytes),
           Metric("BytesRequested", bytes("requested")),
           Metric("BytesStaged", bytes("staged")),
           Metric("BytesValidated", bytes("validated")),
           Metric("BytesCompleted", bytes("copied")) >>

InitMetrics ==
    /\ inventory = [p \in Partitions |-> <<>>]
    /\ EmptyTable
    /\ Idle
    /\ sizeInBytes = 0
    /\ numberOfChunks = None
    /\ progressCount \in ProgressItems
    /\ progressVolume \in ProgressItems
    /\ metricList = <<>>

\* One run of the handler: both items read, the list built and published.
PublishMetrics ==
    /\ metricList = <<>>
    /\ metricList' = postMetrics(progressCount, progressVolume)
    /\ UNCHANGED <<inventory, tvars, hvars, sizeInBytes, numberOfChunks,
                   progressCount, progressVolume>>

NextMetrics == PublishMetrics

SpecMetrics == InitMetrics /\ [][NextMetrics]_vars

-----------------------------------------------------------------------------
(* Properties *)

\* The inventory row at position k of partition p, numbers as the query wrote them.
Row(p, k) == ParseLine(inventory[p][k])

Rows(p) == 1..Len(inventory[p])

HasItem(a) == store[a] # NoItem

\* The least n with n * c >= s.
Ceil(s, c) == CHOOSE n \in 0..s : n * c >= s /\ \A m \in 0..(n - 1) : m * c < s

\* Handler i calls glacier.initiateJob in this step.
Submits(i) == pc[i] = "initiate" /\ pc'[i] = "put"

\* C1 as stated: over any sequence of invocations, aborted ones included, the job
\* submission is called exactly once per archive: at least once by the time an
\* invocation of its partition returns, and never a second time.
C1_ExactlyOnce ==
    /\ \A a \in Archives : submitted[a] <= 1
    /\ \A i \in Handlers : pc[i] = "done" =>
          \A k \in Rows(pid[i]) : submitted[Row(pid[i], k).archiveid] >= 1

\* C1 amended: at least once by the time an invocation returns, and a further time
\* only after an invocation was aborted between the submission and the record
\* write of that archive: submissions never exceed one plus the number of such aborts.
C1_OncePerRecordOrAbort ==
    /\ \A a \in Archives : submitted[a] <= 1 + lost[a]
    /\ \A a \in Archives : lost[a] = 0 /\ HasItem(a) => submitted[a] = 1
    /\ \A i \in Handlers : pc[i] = "done" =>
          \A k \in Rows(pid[i]) : submitted[Row(pid[i], k).archiveid] >= 1

C1_Witness ==
    /\ pc[1] = "done"
    /\ lost["a2"] = 1
    /\ submitted["a2"] = 2
    /\ submitted["a1"] = 1

\* C2: once an invocation has returned for a partition, a later invocation of that
\* partition, run on its own, leaves the set of status records as it was.
C2_RerunCreatesNothing ==
    [][\A i \in Handlers : pid'[i] \in returned /\ Running(i)' => store' = store]_vars

C2_Witness ==
    /\ pc[1] = "done"
    /\ now = 2
    /\ cursor[1] = 2
    /\ idx[1] = 3
    /\ calls[1].put = 0

\* C3: a row whose row number is at most the cursor value (as read, or as advanced
\* in memory) is passed without a name lookup, a submission, a record write, or a
\* change of the cursor value or of the list of names seen.
C3_SkipHasNoEffect ==
    [][\A i \in Handlers :
          (/\ pc[i] = "loop"
           /\ idx[i] <= Len(lines[i])
           /\ Line(i).row_num <= partitionMaxProcessedFileNumber[i])
          => /\ pc'[i] = "loop"
             /\ idx'[i] = idx[i] + 1
             /\ calls'[i] = calls[i]
             /\ processed'[i] = processed[i]
             /\ partitionMaxProcessedFileNumber'[i] = partitionMaxProcessedFileNumber[i]
             /\ <<store, jobs, submitted>>' = <<store, jobs, submitted>>]_vars

C3_Witness ==
    /\ pc[1] = "initiate"
    /\ cursor[1] = 1
    /\ idx[1] = 2
    /\ calls[1].submit = 0
    /\ calls[1].put = 0

\* C4 as stated: whatever the cursor lookup returned, the submitter is never called
\* for an archive that has a status record at the moment of the call.
C4_NeverSubmitsRecorded ==
    [][\A i \in Handlers : Submits(i) => ~HasItem(Line(i).archiveid)]_vars

\* C4 amended: an invocation that runs on its own and whose cursor lookup was not
\* answered by a lagging index never calls the submitter for an archive that has
\* a status record at the moment of the call.
C4_NeverSubmitsRecordedInSync ==
    [][\A i \in Handlers : Submits(i) /\ ~lag[i] => ~HasItem(Line(i).archiveid)]_vars

C4_Witness ==
    /\ pc[1] = "put"
    /\ ~lag[1]
    /\ cursor[1] = 1
    /\ HasItem("a1")
    /\ Line(1).archiveid = "a2"
    /\ submitted["a1"] = 2

\* C5: when an invocation that read cursor value c returns, every row of its
\* partition above c has a record under its archive id carrying the row number,
\* the partition, ceil(size / CHUNK_SIZE) chunks and retry count 0; from cursor 0
\* the partition has as many records as rows.
C5_RecordsAtReturn ==
    \A i \in Handlers : pc[i] = "done" =>
        /\ \A k \in Rows(pid[i]) :
              LET row == Row(pid[i], k)
                  it == store[row.archiveid]
              IN  row.row_num > cursor[i] =>
                    /\ HasItem(row.archiveid)
                    /\ it.aid = row.archiveid
                    /\ it.ifn = row.row_num
                    /\ it.pid = pid[i]
                    /\ it.cc = Ceil(row.size, CHUNK_SIZE)
                    /\ it.rc = 0
        /\ cursor[i] = 0 =>
              Cardinality({ it \in Items(store) : it.pid = pid[i] }) = Len(inventory[pid[i]])

C5_Witness ==
    /\ pc[1] = "done"
    /\ pid[1] = 1
    /\ cursor[1] = 0
    /\ calls[1].put = 2
    /\ store["a1"].cc = 0
    /\ store["a2"].cc = 1

\* C6: a returned invocation hands back the payload with nextPartition one above
\* the partition it consumed and maxPartition as passed, however many rows it
\* skipped or processed; up to the return, and after a failure, the payload is as passed.
C6_PayloadAdvancesAtReturn ==
    \A i \in Handlers : pc[i] # "idle" =>
        IF pc[i] = "done"
        THEN /\ payload[i].nextPartition = input[i].nextPartition + 1
             /\ payload[i].nextPartition = pid[i] + 1
             /\ payload[i].maxPartition = input[i].maxPartition
             /\ idx[i] = Len(lines[i]) + 1
        ELSE payload[i] = input[i]

C6_Witness ==
    /\ pc[1] = "done"
    /\ pid[1] = 2
    /\ Len(inventory[2]) = 0
    /\ calls[1].query = 1
    /\ payload[1] = [nextPartition |-> 3, maxPartition |-> 2]

\* C7: a query execution found FAILED or CANCELLED fails the invocation, which has
\* then looked up no name, submitted no job, written no record and left the
\* payload as passed.
C7_QueryFailureFailsClean ==
    \A i \in Handlers : qstate[i] \in {"FAILED", "CANCELLED"} =>
        /\ pc[i] = "failed"
        /\ calls[i].lookup = 0
        /\ calls[i].submit = 0
        /\ calls[i].put = 0
        /\ payload[i] = input[i]

C7_Witness ==
    /\ qstate[1] = "CANCELLED"
    /\ pc[1] = "failed"
    /\ polls[1] = 1

\* C8: calculateNumberOfChunks(s) is ceil(s / CHUNK_SIZE): 0 exactly for s = 0,
\* s / CHUNK_SIZE for a multiple of CHUNK_SIZE, floor(s / CHUNK_SIZE) + 1 otherwise.
C8_ChunksAreCeil ==
    numberOfChunks # None =>
        /\ numberOfChunks = Ceil(sizeInBytes, CHUNK_SIZE)
        /\ numberOfChunks = 0 <=> sizeInBytes = 0
        /\ sizeInBytes % CHUNK_SIZE = 0 => numberOfChunks * CHUNK_SIZE = sizeInBytes
        /\ sizeInBytes % CHUNK_SIZE # 0 => numberOfChunks = (sizeInBytes \div CHUNK_SIZE) + 1
        /\ sizeInBytes = CHUNK_SIZE => numberOfChunks = 1
        /\ sizeInBytes = CHUNK_SIZE + 1 => numberOfChunks = 2

C8_Witness ==
    /\ sizeInBytes = 2 * CHUNK_SIZE
    /\ numberOfChunks = 2

C10_NameUniqueAtCreation ==
    [][\A a \in Archives : ~HasItem(a) /\ HasItem(a)' =>
          \A b \in Archives \ {a} : HasItem(b) => store[b].fname # store'[a].fname]_vars

\* c is the highest row number among the records of partition p, 0 without any.
IsHighest(c, p) ==
    LET recorded == { a \in Archives : HasItem(a) /\ store[a].pid = p }
    IN  /\ \A a \in recorded : store[a].ifn <= c
        /\ IF recorded = {} THEN c = 0 ELSE \E a \in recorded : store[a].ifn = c

\* Handler i gets the answer of its cursor lookup in this step.
LooksUp(i) == pc[i] = "resume" /\ pc'[i] = "startQuery"

\* C11 as stated: the cursor lookup returns the highest row number among the
\* records of the partition asked for, 0 when it has none, whatever the other
\* partitions hold and whether or not the index lags.
C11_CursorIsPartitionMax ==
    [][\A i \in Handlers : LooksUp(i) => IsHighest(cursor'[i], pid[i])]_vars

\* C11 amended: answered by an index in sync the lookup returns the highest row
\* number among the records of the partition, 0 when it has none; answered by a
\* lagging index it returns a lower row number of a record of the partition, or
\* 0, and does not fail the invocation; records of other partitions never count.
C11_CursorIsPartitionMaxInSync ==
    [][\A i \in Handlers :
          /\ LooksUp(i) /\ ~lag'[i] => IsHighest(cursor'[i], pid[i])
          /\ pc[i] = "resume" /\ lag'[i] =>
                /\ pc'[i] = "startQuery"
                /\ err'[i] = "none"
                /\ \E m \in Rows(pid[i]) : m > cursor'[i] /\ IsHighest(m, pid[i])
                /\ \/ cursor'[i] = 0
                   \/ \E a \in Archives :
                         HasItem(a) /\ store[a].pid = pid[i] /\ store[a].ifn = cursor'[i]]_vars

C11_Witness ==
    /\ pc[1] = "startQuery"
    /\ ~lag[1]
    /\ pid[1] = 2
    /\ cursor[1] = 1
    /\ HasItem("a3")
    /\ HasItem("a2")
    /\ store["a2"].ifn = 2

\* C12: in every state the rows of a partition that have a record are the first
\* rows of its inventory: a row with a record has no row before it without one.
C12_RecordsArePrefix ==
    \A p \in Partitions : \A k \in Rows(p) :
        HasItem(Row(p, k).archiveid) =>
            \A j \in 1..(k - 1) : HasItem(Row(p, j).archiveid)

C12_Witness ==
    /\ pc[1] = "failed"
    /\ err[1] = "initiate"
    /\ pid[1] = 1
    /\ idx[1] = 2
    /\ HasItem("a1")
    /\ ~HasItem("a2")

\* Handler i passes the row at its loop position without processing it.
Skips(i) == pc[i] = "loop" /\ pc'[i] = "loop" /\ idx'[i] = idx[i] + 1

\* Handler i returns in this step.
Returns(i) == pc[i] = "loop" /\ pc'[i] = "done"

\* No row without a record is skipped, and at a return every row of the
\* partition has a record.
NoRowLost ==
    \A i \in Handlers :
        /\ Skips(i) => HasItem(Line(i).archiveid)
        /\ Returns(i) => \A k \in Rows(pid[i]) : HasItem(Row(pid[i], k).archiveid)'

\* C13 as stated: with a lagging cursor or two interleaved invocations of one
\* partition no row without a record is skipped, at a return every row of the
\* partition has a record, and a submission is repeated (other than after an
\* abort between submission and record write) only for a row that has a record.
C13_OnlyRecordedRowsResubmitted ==
    [][/\ NoRowLost
       /\ \A i \in Handlers :
             LET a == Line(i).archiveid
             IN  Submits(i) /\ submitted[a] >= 1 /\ lost[a] = 0 => HasItem(a)]_vars

\* C13 amended: no row without a record is skipped and at a return every row of
\* the partition has a record; a submission is repeated only for a row that has
\* a record or that the other invocation has submitted and not recorded yet,
\* and a record is rewritten only after a repeated submission of its row.
C13_NoRowLostRowsResubmitted ==
    [][/\ NoRowLost
       /\ \A i \in Handlers :
             LET a == Line(i).archiveid
             IN  Submits(i) /\ submitted[a] >= 1 /\ lost[a] = 0 =>
                    \/ HasItem(a)
                    \/ \E j \in Handlers \ {i} :
                          pc[j] = "put" /\ Line(j).archiveid = a
       /\ \A a \in Archives :
             HasItem(a) /\ store'[a] # store[a] => submitted[a] >= 2]_vars

C13_Witness ==
    /\ pc[2] = "done"
    /\ lag[2]
    /\ pid[2] = 1
    /\ cursor[2] = 1
    /\ submitted["a2"] = 2
    /\ lost["a2"] = 0
    /\ HasItem("a1")
    /\ HasItem("a2")

\* The call of glacier.initiateJob by handler i fails in this step.
SubmissionFails(i) == pc[i] = "initiate" /\ pc'[i] = "failed"

C15_EveryErrorFails ==
    \A i \in Handlers : err[i] # "none" =>
        /\ pc[i] = "failed"
        /\ payload[i] = input[i]

\* Handler i writes the record of its row in this step.
Records(i) == pc[i] = "put" /\ pc'[i] = "loop"

\* C16: within an invocation a record is written only while exactly one
\* submission, that of the same row, is not recorded yet, and it carries the job
\* id that submission returned; a submission starts only when every earlier
\* submission of the invocation is recorded, for a row above every row passed
\* so far; so at most one row is submitted and not recorded.
C16_RowCycleSequential ==
    [][\A i \in Handlers :
          LET a == Line(i).archiveid
          IN  /\ Submits(i) =>
                    /\ calls[i].submit = calls[i].put
                    /\ Line(i).row_num > partitionMaxProcessedFileNumber[i]
                    /\ \A k \in 1..(idx[i] - 1) : lines[i][k].row_num < Line(i).row_num
                    /\ jobId'[i] = Len(jobOf')
                    /\ Len(jobOf') = Len(jobOf) + 1
                    /\ jobOf'[jobId'[i]] = a
              /\ pc[i] = "put" /\ pc'[i] = "put" => jobId'[i] = jobId[i]
              /\ Records(i) =>
                    /\ calls[i].submit = calls[i].put + 1
                    /\ jobId[i] \in 1..Len(jobOf)
                    /\ jobOf[jobId[i]] = a
                    /\ store'[a].aid = a
                    /\ store'[a].jobId = jobId[i]
                    /\ partitionMaxProcessedFileNumber'[i] = Line(i).row_num
              /\ calls'[i].submit - calls'[i].put \in {0, 1}
              /\ calls'[i].submit # calls'[i].put => pc'[i] \in {"put", "failed"}]_vars

C16_Witness ==
    /\ pc[1] = "loop"
    /\ calls[1].put = 2
    /\ jobOf = <<"a1", "a3", "a2">>
    /\ store["a1"].jobId = 1
    /\ store["a2"].jobId = 3
    /\ pc[2] = "put"

\* C17: once an archive has a record, no step of any invocation -- after a
\* failure, with a lagging cursor, or otherwise -- changes or removes it: job
\* id, name, request time and retry count stay as first written.
C17_RecordsNeverChange ==
    [][\A a \in Archives : HasItem(a) => store'[a] = store[a]]_vars

\* C18: with the caller invoking again with the same nextPartition after every
\* failure and the failures running out, an invocation for a partition leads to
\* an invocation of that partition that has returned, every row of the
\* partition having a record and nextPartition being one above the partition;
\* on the way no record is lost.
C18_EventuallyDone ==
    /\ \A p \in Partitions :
          (pc[1] = "resume" /\ pid[1] = p) ~>
             (/\ pc[1] = "done"
              /\ pid[1] = p
              /\ \A k \in Rows(p) : HasItem(Row(p, k).archiveid)
              /\ input[1].nextPartition = p
              /\ payload[1].nextPartition = p + 1)
    /\ [][\A a \in Archives : HasItem(a) => HasItem(a)']_vars

C18_Witness ==
    /\ pc[1] = "done"
    /\ pid[1] = 1
    /\ now = 3
    /\ Failures = 2
    /\ lost["a2"] = 1
    /\ cursor[1] = 1
    /\ HasItem("a1")
    /\ HasItem("a2")
    /\ payload[1].nextPartition = 2

\* What holds of the query execution of handler i at every moment of an invocation.
OneQueryBeforeRows(i) ==
    /\ calls[i].query <= 1
    /\ Len(athena) <= now
    /\ pc[i] \in {"poll", "readCSV", "hung", "loop", "exists", "initiate", "put", "done"} =>
          /\ calls[i].query = 1
          /\ QueryExecutionId[i] \in 1..Len(athena)
          /\ athena[QueryExecutionId[i]] = pid[i]
    /\ pc[i] \in {"readCSV", "hung", "loop", "exists", "initiate", "put", "done"} =>
          qstate[i] = "SUCCEEDED"
    /\ calls[i].lookup + calls[i].submit + calls[i].put > 0 => qstate[i] = "SUCCEEDED"
    /\ lines[i] # <<>> => qstate[i] = "SUCCEEDED"
    /\ qstate[i] \in {"QUEUED", "RUNNING"} => pc[i] \in {"poll", "failed"} /\ err[i] # "athena"
    /\ qstate[i] \in {"FAILED", "CANCELLED"} => pc[i] = "failed" /\ err[i] = "athena"

\* C19: an invocation starts one query execution, for its partition, and looks
\* up no name, submits no job and writes no record before that execution was
\* found SUCCEEDED; while it is found QUEUED or RUNNING the handler stays in the
\* polling loop; the loop is left once the execution is terminal, for the result
\* file on SUCCEEDED and with the exception otherwise.
C19_OneQueryPolledToTheEnd ==
    /\ [](\A i \in Handlers : OneQueryBeforeRows(i))
    /\ (pc[1] = "poll") ~>
          \/ pc[1] = "readCSV" /\ qstate[1] = "SUCCEEDED"
          \/ pc[1] = "failed" /\ err[1] \in {"athena", "poll"}

C19_Witness ==
    /\ pc[1] = "readCSV"
    /\ qstate[1] = "SUCCEEDED"
    /\ polls[1] = 1
    /\ calls[1].query = 1
    /\ athena = <<1, 1>>
    /\ QueryExecutionId[1] = 2

Malformed(line) == line.row_num = NaN \/ line.size = NaN

\* Of every malformed row: no handler is past it, it has no record, and no row
\* after it is submitted or recorded; an invocation that read it has not returned
\* and its payload is as passed.
FailsAtMalformedRow ==
    /\ \A p \in Partitions : \A k \in Rows(p) : Malformed(Row(p, k)) =>
          /\ ~HasItem(Row(p, k).archiveid)
          /\ \A i \in Handlers : lines[i] # <<>> /\ pid[i] = p =>
                /\ idx[i] <= k
                /\ pc[i] # "done"
                /\ payload[i] = input[i]
          /\ \A j \in Rows(p) : j > k =>
                /\ submitted[Row(p, j).archiveid] = 0
                /\ ~HasItem(Row(p, j).archiveid)

\* C20 as stated: a row whose row_num or size is no number fails the invocation
\* with the payload as passed; the row is not skipped and not processed as a
\* sound row is (no job is submitted for it, no record written), and no row
\* after it is submitted or recorded.
C20_MalformedRowNotProcessed ==
    /\ FailsAtMalformedRow
    /\ \A p \in Partitions : \A k \in Rows(p) : Malformed(Row(p, k)) =>
          submitted[Row(p, k).archiveid] = 0

\* C20 amended: the invocation fails with the payload as passed, the row is not
\* skipped and gets no record, and no row after it is submitted or recorded;
\* but a job is submitted for the row by every invocation that gets to it, and
\* the invocation fails only at the record write that follows.
C20_MalformedRowFailsAtRecordWrite ==
    [][/\ FailsAtMalformedRow'
       /\ \A i \in Handlers :
             (pc[i] = "loop" /\ idx[i] <= Len(lines[i]) /\ Malformed(Line(i))) =>
                 pc'[i] \in {"initiate", "exists"} /\ idx'[i] = idx[i]
       /\ \A i \in Handlers :
             (pc[i] = "put" /\ Malformed(Line(i))) =>
                 /\ pc'[i] = "failed"
                 /\ lost'[Line(i).archiveid] = submitted[Line(i).archiveid]
                 /\ store' = store]_vars

C20_Witness ==
    /\ pc[1] = "failed"
    /\ err[1] = "put"
    /\ now = 2
    /\ cursor[1] = 1
    /\ Malformed(Line(1))
    /\ submitted["a2"] = 2
    /\ lost["a2"] = 2
    /\ HasItem("a1")
    /\ ~HasItem("a2")
    /\ submitted["a3"] = 0

\* The records of partition p and the submissions for its rows are those of a
\* run of p on its own: one record per row with the row's archive id, row
\* number and chunk count, and one submission per row beyond those lost.
AsAlone(p) ==
    /\ { <<it.aid, it.ifn, it.cc>> : it \in { o \in Items(store) : o.pid = p } }
         = { <<Row(p, k).archiveid, Row(p, k).row_num, Ceil(Row(p, k).size, CHUNK_SIZE)>>
             : k \in Rows(p) }
    /\ \A k \in Rows(p) :
          submitted[Row(p, k).archiveid] = 1 + lost[Row(p, k).archiveid]

\* C21: with one chain of invocations per partition, overlapping in any way, an
\* invocation for partition p writes records of rows of p with partition p only,
\* its cursor is the highest row number among the records of p, it skips only
\* rows recorded under p and submits only rows without a record, and when it
\* returns partition p has the records (archive id, row number, chunk count)
\* and the submissions of a run on its own.
C21_PartitionsIndependent ==
    [][/\ \A a \in Archives : store'[a] # store[a] =>
             \E i \in Handlers :
                /\ Records(i)
                /\ Line(i).archiveid = a
                /\ store'[a].pid = pid[i]
                /\ \E k \in Rows(pid[i]) : Row(pid[i], k).archiveid = a
                /\ \A b \in Archives \ {a} : store'[b] = store[b]
       /\ \A i \in Handlers :
             /\ LooksUp(i) => IsHighest(cursor'[i], pid[i])
             /\ Skips(i) =>
                   HasItem(Line(i).archiveid) /\ store[Line(i).archiveid].pid = pid[i]
             /\ Submits(i) => ~HasItem(Line(i).archiveid)
             /\ Returns(i) => AsAlone(pid[i])']_vars

C21_Witness ==
    /\ pc[1] = "done"
    /\ pc[2] = "done"
    /\ pid[1] = 1
    /\ pid[2] = 2
    /\ jobOf = <<"a1", "a3", "a2">>
    /\ store["a1"].pid = 1
    /\ store["a2"].pid = 1
    /\ store["a3"].pid = 2

\* The number stored in a field of a progress item, 0 if there is none.
Stored(item, field) ==
    IF item = Undefined \/ item[field] = Absent THEN 0
    ELSE CHOOSE n \in 0..(MaxMetric + 1) : ToCSV(n) = item[field]

HasTotal(item) == item # Undefined /\ item.total # Absent

Least(a, b) == IF a <= b THEN a ELSE b

\* The value published under a metric name.
Published(name) ==
    metricList[CHOOSE k \in 1..Len(metricList) : metricList[k].metricName = name].metricValue

CountMetric(f) ==
    "ArchiveCount" \o (IF f = "requested" THEN "Requested" ELSE IF f = "staged" THEN "Staged"
                       ELSE IF f = "validated" THEN "Validated" ELSE "Completed")

BytesMetric(f) ==
    "Bytes" \o (IF f = "requested" THEN "Requested" ELSE IF f = "staged" THEN "Staged"
                ELSE IF f = "validated" THEN "Validated" ELSE "Completed")

\* C22: the publisher publishes a stored total as it is and a missing one as
\* null; with a stored total count other than 0 every count metric is the lesser
\* of the stored value and the total count, and every byte metric is a number,
\* the lesser of the stored value and the total bytes; without a total count, or
\* with total count 0, the stored values are published; a missing progress
\* value counts as 0.
C22_PublishedClamped ==
    metricList # <<>> =>
        /\ Published("ArchiveCountTotal") =
               IF HasTotal(progressCount) THEN Stored(progressCount, "total") ELSE Null
        /\ Published("BytesTotal") =
               IF HasTotal(progressVolume) THEN Stored(progressVolume, "total") ELSE Null
        /\ \A f \in ProgressFields :
              IF HasTotal(progressCount) /\ Stored(progressCount, "total") # 0
              THEN /\ Published(CountMetric(f)) =
                         Least(Stored(progressCount, f), Stored(progressCount, "total"))
                   /\ Published(BytesMetric(f)) # Null
                   /\ HasTotal(progressVolume) =>
                         Published(BytesMetric(f)) =
                            Least(Stored(progressVolume, f), Stored(progressVolume, "total"))
              ELSE /\ Published(CountMetric(f)) = Stored(progressCount, f)
                   /\ Published(BytesMetric(f)) = Stored(progressVolume, f)

====
